---- MODULE Spec2Model ----
(***************************************************************************)
(* Model of the questionnaire response service of src/server.js.  The file *)
(* holds three variants of the same Express + SQLite server (lines 1-377,  *)
(* 379-700 and 702-1072); `variant' says which one is running.             *)
(*                                                                         *)
(* Text values are sequences of one-character strings.  SQL NULL and the   *)
(* JavaScript value undefined are the one-element sequences Null and       *)
(* Undefined, whose element is longer than one character and so is never   *)
(* part of a text.                                                         *)
(***************************************************************************)
EXTENDS Integers, Sequences, FiniteSets, TLC

VARIABLES
    variant,    \* which of the three server variants is running
    table,      \* the rows of table `responses'
    seq,        \* sqlite_sequence entry of `responses' (AUTOINCREMENT)
    now,        \* the store's clock, in seconds (CURRENT_TIMESTAMP)
    alive,      \* FALSE once an uncaught exception has ended the process
    req,        \* the request handled last
    resp,       \* the response sent to it
    live,       \* responseId, firstName, email of each submit, until the store
                \* runs a delete of that id
    issued,     \* every responseId returned by a successful submit
    stats,      \* the statistics request in flight, if any
    shutdown    \* how far the SIGINT handler has come

vars ==
    <<variant, table, seq, now, alive, req, resp, live, issued, stats, shutdown>>

(***************************************************************************)
(* Bounds of the model.                                                    *)
(***************************************************************************)
MaxId == 2          \* ids handed out in one run
MaxClock == 2       \* last second of the clock
DayLen == 2         \* seconds in one calendar day

Variants == 1..3

(***************************************************************************)
(* JavaScript values.                                                      *)
(***************************************************************************)
Null == <<"NULL">>
Undefined == <<"UNDEFINED">>

\* !v for the values a JSON body, a header or a query parameter can hold
Falsy(v) == v = Undefined \/ v = Null \/ v = <<>>

\* a || b
Or(a, b) == IF Falsy(a) THEN b ELSE a

\* `${v}` in a template literal
TemplateStr(v) ==
    IF v = Null THEN <<"n", "u", "l", "l">>
    ELSE IF v = Undefined THEN <<"u", "n", "d", "e", "f", "i", "n", "e", "d">>
    ELSE v

Digits == <<"0", "1", "2", "3", "4", "5", "6", "7", "8", "9">>

RECURSIVE NumStr(_)
\* `${n}` for a non-negative integer
NumStr(n) ==
    IF n < 10 THEN <<Digits[n + 1]>>
    ELSE NumStr(n \div 10) \o <<Digits[(n % 10) + 1]>>

IsDigit(c) == \E d \in 1..10 : Digits[d] = c

DigitVal(c) == (CHOOSE d \in 1..10 : Digits[d] = c) - 1

RECURSIVE StrNum(_)
StrNum(s) ==
    IF s = <<>> THEN 0
    ELSE 10 * StrNum(SubSeq(s, 1, Len(s) - 1)) + DigitVal(s[Len(s)])

(***************************************************************************)
(* The store.                                                              *)
(***************************************************************************)
\* node-sqlite3 binds undefined as NULL
Bind(v) == IF v = Undefined THEN Null ELSE v

\* A text bound against the INTEGER PRIMARY KEY column: a text that is a
\* decimal integer compares as that integer, any other text equals no id.
\* 0 stands for "equals no id" (ids start at 1).
IdOfParam(p) ==
    IF p # <<>> /\ \A i \in 1..Len(p) : IsDigit(p[i]) THEN StrNum(p) ELSE 0

RowsFromId(t, p) == {r \in t : r.id >= IdOfParam(p)}

RowsWithId(t, p) == {r \in t : r.id = IdOfParam(p)}

MaxOf(S) == IF S = {} THEN 0 ELSE CHOOSE m \in S : \A x \in S : x <= m

RowidReuse(s, t) == MaxOf({r.id : r \in t}) + 1

\* id INTEGER PRIMARY KEY AUTOINCREMENT: one more than the largest id the
\* table has ever held, which sqlite_sequence remembers
NextId(s, t) == MaxOf({s} \cup {r.id : r \in t}) + 1

\* first_name TEXT NOT NULL, email TEXT NOT NULL
NotNullViolated(r) == r.first_name = Null \/ r.email = Null

\* DATE(x): the calendar day of a timestamp
DateOf(ts) == ts \div DayLen

(***************************************************************************)
(* Requests.                                                               *)
(***************************************************************************)
NoAnswers == [q \in 1..5 |-> Undefined]

SomeAnswers == <<<<"y">>, <<>>, Undefined, <<",">>, Null>>

\* req.body of POST /api/submit-questionnaire
Body(fn, em, qs) ==
    [firstName |-> fn, email |-> em, question1 |-> qs[1], question2 |-> qs[2],
     question3 |-> qs[3], question4 |-> qs[4], question5 |-> qs[5]]

\* what the request context tells about the caller: the x-forwarded-for
\* header, the socket's remote address (undefined once the socket is
\* destroyed) and the user-agent header
Client(xff, ra, ua) == [xff |-> xff, remoteAddress |-> ra, userAgent |-> ua]

Submissions ==
    { [body |-> Body(<<"A", "b">>, <<"b", "@">>, NoAnswers),
       client |-> Client(Undefined, Undefined, <<"u">>)],
      [body |-> Body(<<"a", "\"">>, <<"c", "%">>, SomeAnswers),
       client |-> Client(<<"9">>, <<"7">>, Undefined)],
      [body |-> Body(Undefined, <<"b", "@">>, SomeAnswers),
       client |-> Client(Undefined, <<"7">>, <<"u">>)],
      [body |-> Body(<<"A", "b">>, <<>>, NoAnswers),
       client |-> Client(Undefined, <<"7">>, <<"u">>)] }

\* req.params.id of /api/responses/:id
IdParams == {NumStr(i) : i \in 1..MaxId} \cup {<<"0", "1">>, <<"x">>}

\* req.query.query of /api/search
Queries == {Undefined, <<>>, <<"a">>, <<"B">>, <<"%">>, <<"_">>, <<"z">>}

(***************************************************************************)
(* 1. Submit questionnaire response.                                       *)
(***************************************************************************)
FirstNameMissing(body) == Falsy(body.firstName)

\* if (!firstName || !email)
RequiredMissing(body) == Falsy(body.firstName) \/ Falsy(body.email)

\* express: req.ip is the socket's remote address (no trusted proxy)
ReqIp(client) == client.remoteAddress

IpAddress(v, client) ==
    IF v = 1 THEN Or(client.xff, client.remoteAddress)
    ELSE Or(ReqIp(client), client.remoteAddress)

\* variants 1 and 2 bind `questionN || null', variant 3 binds questionN
Answer(v, q) == IF v = 3 THEN q ELSE Or(q, Null)

InsertedRowSwapped(v, body, client, id, ts) ==
    [id |-> id,
     first_name |-> Bind(body.email),
     email |-> Bind(body.firstName),
     question_1 |-> Bind(Answer(v, body.question1)),
     question_2 |-> Bind(Answer(v, body.question2)),
     question_3 |-> Bind(Answer(v, body.question3)),
     question_4 |-> Bind(Answer(v, body.question4)),
     question_5 |-> Bind(Answer(v, body.question5)),
     submitted_at |-> ts,
     ip_address |-> Bind(IpAddress(v, client)),
     user_agent |-> Bind(client.userAgent)]

\* the row INSERT INTO responses (...) VALUES (?, ?, ?, ?, ?, ?, ?, ?, ?) adds
InsertedRow(v, body, client, id, ts) ==
    [id |-> id,
     first_name |-> Bind(body.firstName),
     email |-> Bind(body.email),
     question_1 |-> Bind(Answer(v, body.question1)),
     question_2 |-> Bind(Answer(v, body.question2)),
     question_3 |-> Bind(Answer(v, body.question3)),
     question_4 |-> Bind(Answer(v, body.question4)),
     question_5 |-> Bind(Answer(v, body.question5)),
     submitted_at |-> ts,
     ip_address |-> Bind(IpAddress(v, client)),
     user_agent |-> Bind(client.userAgent)]

\* the handler, for a request drawn from S
SubmitFrom(S) ==
    /\ alive
    /\ \E s \in S :
        IF RequiredMissing(s.body)
        THEN /\ req' = [op |-> "submit", body |-> s.body, err |-> FALSE]
             /\ resp' = [status |-> 400,
                         body |-> [success |-> FALSE,
                                   message |-> "First name and email are required"]]
             /\ UNCHANGED <<table, seq, live, issued>>
        ELSE \E err \in BOOLEAN :
             LET row == InsertedRow(variant, s.body, s.client, NextId(seq, table), now)
             IN /\ req' = [op |-> "submit", body |-> s.body, err |-> err]
                /\ IF err \/ NotNullViolated(row)
                   THEN /\ resp' = [status |-> 500,
                                    body |-> [success |-> FALSE,
                                              message |-> "Failed to save response"]]
                        /\ UNCHANGED <<table, seq, live, issued>>
                   ELSE /\ row.id <= MaxId
                        /\ table' = table \cup {row}
                        /\ seq' = row.id
                        /\ resp' = [status |-> 200,
                                    body |-> [success |-> TRUE,
                                              responseId |-> row.id,
                                              message |-> "Response saved successfully"]]
                        /\ live' = live \cup {[id |-> row.id,
                                               firstName |-> s.body.firstName,
                                               email |-> s.body.email]}
                        /\ issued' = issued \cup {row.id}
    /\ UNCHANGED <<variant, now, alive, stats, shutdown>>

SubmitQuestionnaire == SubmitFrom(Submissions)

\* requests whose firstName or email is white space only
BlankSubmissions ==
    { [body |-> Body(<<" ">>, <<"b", "@">>, NoAnswers),
       client |-> Client(Undefined, <<"7">>, <<"u">>)],
      [body |-> Body(<<"A", "b">>, <<" ", "\t">>, NoAnswers),
       client |-> Client(Undefined, <<"7">>, <<"u">>)] }

SubmitAny == SubmitFrom(Submissions \cup BlankSubmissions)

(***************************************************************************)
(* Store queries.                                                          *)
(***************************************************************************)
\* the sequences that hold every element of S once
Orderings(S) ==
    {f \in [1..Cardinality(S) -> S] :
        \A i, j \in 1..Cardinality(S) : i < j => f[i] # f[j]}

OrderBySubmittedAtAsc(S) ==
    {f \in Orderings(S) :
        \A i, j \in 1..Cardinality(S) :
            i < j => f[i].submitted_at <= f[j].submitted_at}

\* ORDER BY submitted_at DESC: what db.all may hand to its callback.  SQL
\* leaves the order of rows with equal submitted_at open.
OrderBySubmittedAtDesc(S) ==
    {f \in Orderings(S) :
        \A i, j \in 1..Cardinality(S) :
            i < j => f[i].submitted_at >= f[j].submitted_at}

\* db.get('SELECT * FROM responses WHERE id = ?'): the row, or no row
DbGet(t, p) ==
    IF RowsWithId(t, p) = {} THEN <<>> ELSE <<CHOOSE r \in RowsWithId(t, p) : TRUE>>

UpperCase == <<"A", "B", "C", "Y">>

LowerCase == <<"a", "b", "c", "y">>

\* LIKE folds the case of ASCII letters
Fold(c) ==
    IF \E i \in 1..Len(UpperCase) : UpperCase[i] = c
    THEN LowerCase[CHOOSE i \in 1..Len(UpperCase) : UpperCase[i] = c]
    ELSE c

RECURSIVE Like(_, _)
\* text LIKE pattern, no ESCAPE: % is any run of characters, _ any one
Like(pat, txt) ==
    IF pat = <<>> THEN txt = <<>>
    ELSE IF Head(pat) = "%"
         THEN Like(Tail(pat), txt) \/ (txt # <<>> /\ Like(pat, Tail(txt)))
    ELSE IF Head(pat) = "_"
         THEN txt # <<>> /\ Like(Tail(pat), Tail(txt))
    ELSE txt # <<>> /\ Fold(Head(pat)) = Fold(Head(txt)) /\ Like(Tail(pat), Tail(txt))

\* WHERE first_name LIKE ? OR email LIKE ?
LikeRows(t, pat) ==
    {r \in t : (r.first_name # Null /\ Like(pat, r.first_name))
               \/ (r.email # Null /\ Like(pat, r.email))}

(***************************************************************************)
(* 2. Get all responses.                                                   *)
(***************************************************************************)
\* variants 1 and 2 select ten named columns, variant 3 selects *
ListedColumns(v, r) ==
    IF v = 3 THEN r
    ELSE [id |-> r.id, first_name |-> r.first_name, email |-> r.email,
          question_1 |-> r.question_1, question_2 |-> r.question_2,
          question_3 |-> r.question_3, question_4 |-> r.question_4,
          question_5 |-> r.question_5, submitted_at |-> r.submitted_at,
          ip_address |-> r.ip_address]

GetResponses ==
    /\ alive
    /\ \E err \in BOOLEAN, ord \in OrderBySubmittedAtDesc(table) :
        LET rows == [i \in 1..Len(ord) |-> ListedColumns(variant, ord[i])]
        IN /\ req' = [op |-> "list", err |-> err]
           /\ resp' = IF err
                      THEN [status |-> 500,
                            body |-> [success |-> FALSE,
                                      message |-> "Failed to fetch responses"]]
                      ELSE [status |-> 200,
                            body |-> [success |-> TRUE, count |-> Len(rows),
                                      responses |-> rows]]
    /\ UNCHANGED <<variant, table, seq, now, alive, live, issued, stats, shutdown>>

(***************************************************************************)
(* 3. Get single response by id.                                           *)
(***************************************************************************)
GetStatusIgnoringRow(row) == 200

\* if (!row) 404
GetStatus(row) == IF row = <<>> THEN 404 ELSE 200

\* `response' holds the row of db.get, as a sequence of at most one row
GetResponse ==
    /\ alive
    /\ \E id \in IdParams, err \in BOOLEAN :
        LET row == DbGet(table, id)
        IN /\ req' = [op |-> "get", id |-> id, err |-> err]
           /\ resp' = IF err
                      THEN [status |-> 500,
                            body |-> [success |-> FALSE,
                                      message |-> "Failed to fetch response"]]
                      ELSE IF GetStatus(row) = 404
                      THEN [status |-> 404,
                            body |-> [success |-> FALSE,
                                      message |-> "Response not found"]]
                      ELSE [status |-> 200,
                            body |-> [success |-> TRUE, response |-> row]]
    /\ UNCHANGED <<variant, table, seq, now, alive, live, issued, stats, shutdown>>

(***************************************************************************)
(* 5. Delete response.                                                     *)
(***************************************************************************)
\* variants 1 and 2: if (this.changes === 0) 404; variant 3 has no such test
DeleteStatus(v, changes) == IF v # 3 /\ changes = 0 THEN 404 ELSE 200

DeleteResponse ==
    /\ alive
    /\ \E id \in IdParams, err \in BOOLEAN :
        LET hit == RowsWithId(table, id)
        IN /\ req' = [op |-> "delete", id |-> id, err |-> err]
           /\ IF err
              THEN /\ resp' = [status |-> 500,
                               body |-> [success |-> FALSE,
                                         message |-> "Failed to delete response"]]
                   /\ UNCHANGED <<table, live>>
              ELSE /\ table' = table \ hit
                   /\ live' = {l \in live : l.id # IdOfParam(id)}
                   /\ resp' = IF DeleteStatus(variant, Cardinality(hit)) = 404
                              THEN [status |-> 404,
                                    body |-> [success |-> FALSE,
                                              message |-> "Response not found"]]
                              ELSE [status |-> 200,
                                    body |-> [success |-> TRUE,
                                              message |-> "Response deleted successfully"]]
    /\ UNCHANGED <<variant, seq, now, alive, issued, stats, shutdown>>

(***************************************************************************)
(* 6. Search responses.                                                    *)
(***************************************************************************)
\* variants 1 and 2: if (!query) 400; variant 3: req.query.query || ''
QueryRejected(v, query) == v # 3 /\ Falsy(query)

\* `%${query}%'
SearchPattern(v, query) ==
    <<"%">> \o TemplateStr(IF v = 3 THEN Or(query, <<>>) ELSE query) \o <<"%">>

\* the rows are under `results' in variant 2, under `responses' in 1 and 3
SearchBody(v, rows) ==
    IF v = 2
    THEN [success |-> TRUE, count |-> Len(rows), results |-> rows]
    ELSE [success |-> TRUE, count |-> Len(rows), responses |-> rows]

SearchResponses ==
    /\ alive
    /\ \E query \in Queries :
        IF QueryRejected(variant, query)
        THEN /\ req' = [op |-> "search", query |-> query, err |-> FALSE]
             /\ resp' = [status |-> 400,
                         body |-> [success |-> FALSE,
                                   message |-> "Search query is required"]]
        ELSE \E err \in BOOLEAN,
                rows \in OrderBySubmittedAtDesc(
                             LikeRows(table, SearchPattern(variant, query))) :
             /\ req' = [op |-> "search", query |-> query, err |-> err]
             /\ resp' = IF err
                        THEN [status |-> 500,
                              body |-> [success |-> FALSE,
                                        message |-> "Search failed"]]
                        ELSE [status |-> 200, body |-> SearchBody(variant, rows)]
    /\ UNCHANGED <<variant, table, seq, now, alive, live, issued, stats, shutdown>>

(***************************************************************************)
(* 7. Export to CSV.  The document is a sequence of characters; the column *)
(* titles of the header line are kept whole.                               *)
(***************************************************************************)
CsvHeader(v) ==
    <<"ID", ",", "First Name", ",", "Email", ",", "Question 1", ",",
      "Question 2", ",", "Question 3", ",", "Question 4", ",", "Question 5", ",",
      "Submitted At", ",", "IP Address">>
    \o (IF v = 3 THEN <<",", "User Agent">> ELSE <<>>) \o <<"\n">>

\* submitted_at as the store returns it: the day, a blank, the second of the day
TimestampStr(ts) == NumStr(DateOf(ts)) \o <<" ">> \o NumStr(ts % DayLen)

\* "${value}"
Quoted(value) == <<"\"">> \o TemplateStr(value) \o <<"\"">>

\* variants 1 and 2: "${row.ip_address}"; variant 3: "${row.ip_address || ''}"
CsvIpAddress(v, r) ==
    IF v = 3 THEN Quoted(Or(r.ip_address, <<>>)) ELSE Quoted(r.ip_address)

CsvLine(v, r) ==
    NumStr(r.id) \o <<",">> \o Quoted(r.first_name) \o <<",">> \o Quoted(r.email)
    \o <<",">> \o Quoted(Or(r.question_1, <<>>))
    \o <<",">> \o Quoted(Or(r.question_2, <<>>))
    \o <<",">> \o Quoted(Or(r.question_3, <<>>))
    \o <<",">> \o Quoted(Or(r.question_4, <<>>))
    \o <<",">> \o Quoted(Or(r.question_5, <<>>))
    \o <<",">> \o Quoted(TimestampStr(r.submitted_at))
    \o <<",">> \o CsvIpAddress(v, r)
    \o (IF v = 3 THEN <<",">> \o Quoted(Or(r.user_agent, <<>>)) ELSE <<>>)
    \o <<"\n">>

RECURSIVE CsvLines(_, _)
\* rows.forEach(row => { csv += ... })
CsvLines(v, rows) ==
    IF rows = <<>> THEN <<>> ELSE CsvLine(v, Head(rows)) \o CsvLines(v, Tail(rows))

ExportCsv ==
    /\ alive
    /\ \E err \in BOOLEAN, rows \in OrderBySubmittedAtDesc(table) :
        /\ req' = [op |-> "csv", err |-> err]
        /\ resp' = IF err
                   THEN [status |-> 500,
                         body |-> [success |-> FALSE, message |-> "Export failed"]]
                   ELSE [status |-> 200,
                         contentType |-> "text/csv",
                         body |-> CsvHeader(variant) \o CsvLines(variant, rows)]
    /\ UNCHANGED <<variant, table, seq, now, alive, live, issued, stats, shutdown>>

(***************************************************************************)
(* Root endpoint: variants 1 and 3 describe the service; variant 2 has no  *)
(* route for / and Express answers 404.                                    *)
(***************************************************************************)
Root ==
    /\ alive
    /\ req' = [op |-> "root"]
    /\ resp' = IF variant = 2
               THEN [status |-> 404]
               ELSE [status |-> 200,
                     body |-> [success |-> TRUE,
                               message |-> "Passive Income Playbook API Server",
                               version |-> "1.0.0"]]
    /\ UNCHANGED <<variant, table, seq, now, alive, live, issued, stats, shutdown>>

(***************************************************************************)
(* 4. Get statistics.  The only handler with more than one store call: the *)
(* request is in flight from GetStats until its response, and each of its  *)
(* store calls reads the table as it is when the call runs.                *)
(***************************************************************************)
DailyLimit == 30

\* SELECT COUNT(*) as count FROM responses
CountAll(t) == Cardinality(t)

CountTodayNoFilter(t, clock) == Cardinality(t)

\* ... WHERE DATE(submitted_at) = DATE('now')
CountToday(t, clock) ==
    Cardinality({r \in t : DateOf(r.submitted_at) = DateOf(clock)})

\* SELECT COUNT(DISTINCT email) as count FROM responses
CountDistinctEmails(t) == Cardinality({r.email : r \in t} \ {Null})

\* variant 2: ... GROUP BY DATE(submitted_at) ORDER BY date DESC LIMIT 30
DailyBreakdown(t) ==
    LET days == {DateOf(r.submitted_at) : r \in t}
        group(d) == {r \in t : DateOf(r.submitted_at) = d}
        line(d) == [total_responses |-> Cardinality(group(d)),
                    unique_emails |-> CountDistinctEmails(group(d)),
                    date |-> d,
                    daily_count |-> Cardinality(group(d))]
        sorted == CHOOSE f \in Orderings(days) :
                      \A i, j \in 1..Cardinality(days) : i < j => f[i] > f[j]
    IN [i \in 1..(IF Len(sorted) < DailyLimit THEN Len(sorted) ELSE DailyLimit)
           |-> line(sorted[i])]

\* the keys of `queries' in variant 1
StatsKeys == {"total", "today", "uniqueEmails"}

StatsQuery(key, t, clock) ==
    IF key = "total" THEN CountAll(t)
    ELSE IF key = "today" THEN CountToday(t, clock)
    ELSE CountDistinctEmails(t)

\* stats[key] = row.count
WithKey(obj, key, value) ==
    [k \in (DOMAIN obj) \cup {key} |-> IF k = key THEN value ELSE obj[k]]

NoStats == [pc |-> "idle"]

\* The request arrives; variant 1 queues its three queries at once, variants
\* 2 and 3 issue their first.  `seen' and `todayAt' are not state of the
\* program: they keep the tables the request's queries have read and the clock
\* its today query ran at.
GetStats ==
    /\ alive
    /\ stats.pc = "idle"
    /\ stats' = IF variant = 1
                THEN [pc |-> "queued", pending |-> StatsKeys, stats |-> <<>>,
                      completed |-> 0, failed |-> FALSE, seen |-> {},
                      todayAt |-> 0]
                ELSE IF variant = 2 THEN [pc |-> "daily"]
                ELSE [pc |-> "total"]
    /\ UNCHANGED <<variant, table, seq, now, alive, req, resp, live, issued, shutdown>>

\* variant 1: one of the queued queries runs and its callback counts it; the
\* callback that counts the last one responds, with the values it has
StatsCallback ==
    /\ alive
    /\ variant = 1
    /\ stats.pc = "queued"
    /\ \E key \in stats.pending, err \in BOOLEAN :
        LET obj == IF err THEN stats.stats
                   ELSE WithKey(stats.stats, key, StatsQuery(key, table, now))
            completed == stats.completed + 1
            seen == IF err THEN stats.seen ELSE stats.seen \cup {table}
            todayAt == IF ~err /\ key = "today" THEN now ELSE stats.todayAt
        IN IF completed = Cardinality(StatsKeys)
           THEN /\ stats' = NoStats
                /\ req' = [op |-> "stats", failed |-> stats.failed \/ err,
                           seen |-> seen, todayAt |-> todayAt]
                /\ resp' = [status |-> 200,
                            body |-> [success |-> TRUE, stats |-> obj]]
           ELSE /\ stats' = [pc |-> "queued", pending |-> stats.pending \ {key},
                             stats |-> obj, completed |-> completed,
                             failed |-> stats.failed \/ err, seen |-> seen,
                             todayAt |-> todayAt]
                /\ UNCHANGED <<req, resp>>
    /\ UNCHANGED <<variant, table, seq, now, alive, live, issued, shutdown>>

\* variant 2: the grouped query; on success the total query is issued
StatsDaily ==
    /\ alive
    /\ variant = 2
    /\ stats.pc = "daily"
    /\ \E err \in BOOLEAN :
        IF err
        THEN /\ stats' = NoStats
             /\ req' = [op |-> "stats", failed |-> TRUE]
             /\ resp' = [status |-> 500,
                         body |-> [success |-> FALSE,
                                   message |-> "Failed to fetch stats"]]
        ELSE /\ stats' = [pc |-> "total", rows |-> DailyBreakdown(table)]
             /\ UNCHANGED <<req, resp>>
    /\ UNCHANGED <<variant, table, seq, now, alive, live, issued, shutdown>>

\* variant 2: the callback of the total query reads total.total without
\* looking at err; with err, total is undefined, the read throws inside the
\* store callback and the uncaught exception ends the process
StatsTotal ==
    /\ alive
    /\ variant = 2
    /\ stats.pc = "total"
    /\ \E err \in BOOLEAN :
        /\ stats' = NoStats
        /\ req' = [op |-> "stats", failed |-> err]
        /\ IF err
           THEN /\ resp' = [status |-> 0]
                /\ alive' = FALSE
           ELSE /\ resp' = [status |-> 200,
                            body |-> [success |-> TRUE,
                                      totalResponses |-> CountAll(table),
                                      dailyBreakdown |-> stats.rows]]
                /\ UNCHANGED alive
    /\ UNCHANGED <<variant, table, seq, now, live, issued, shutdown>>

\* variant 3: total, then today, then unique, each issued from the callback
\* of the one before; any err answers 500
StatsNested ==
    /\ alive
    /\ variant = 3
    /\ stats.pc \in {"total", "today", "unique"}
    /\ \E err \in BOOLEAN :
        IF err
        THEN /\ stats' = NoStats
             /\ req' = [op |-> "stats", failed |-> TRUE]
             /\ resp' = [status |-> 500,
                         body |-> [success |-> FALSE, message |-> "Database error"]]
        ELSE IF stats.pc = "total"
        THEN /\ stats' = [pc |-> "today", totalResult |-> CountAll(table),
                          seen |-> {table}]
             /\ UNCHANGED <<req, resp>>
        ELSE IF stats.pc = "today"
        THEN /\ stats' = [pc |-> "unique", totalResult |-> stats.totalResult,
                          todayResult |-> CountToday(table, now),
                          seen |-> stats.seen \cup {table}, todayAt |-> now]
             /\ UNCHANGED <<req, resp>>
        ELSE /\ stats' = NoStats
             /\ req' = [op |-> "stats", failed |-> FALSE,
                        seen |-> stats.seen \cup {table},
                        todayAt |-> stats.todayAt]
             /\ resp' = [status |-> 200,
                         body |-> [success |-> TRUE,
                                   stats |-> [totalResponses |-> stats.totalResult,
                                              todayResponses |-> stats.todayResult,
                                              uniqueEmails |->
                                                  CountDistinctEmails(table)]]]
    /\ UNCHANGED <<variant, table, seq, now, alive, live, issued, shutdown>>

(***************************************************************************)
(* Graceful shutdown.  The SIGINT handler asks the store to close and      *)
(* exits from the callback of the close; the server that app.listen        *)
(* returned is not kept, and nothing closes it.  A store call made while   *)
(* the close is under way runs or fails, as the store decides (err).       *)
(***************************************************************************)
Running == [phase |-> "running"]

\* process.on('SIGINT', ...): db.close(callback)
Sigint ==
    /\ alive
    /\ shutdown.phase = "running"
    /\ shutdown' = [phase |-> "closing"]
    /\ UNCHANGED <<variant, table, seq, now, alive, req, resp, live, issued, stats>>

\* the callback of db.close: logs err or success, then process.exit(0)
DbClosed ==
    /\ alive
    /\ shutdown.phase = "closing"
    /\ \E err \in BOOLEAN :
        shutdown' = [phase |-> "exited", code |-> 0, err |-> err]
    /\ alive' = FALSE
    /\ UNCHANGED <<variant, table, seq, now, req, resp, live, issued, stats>>

(***************************************************************************)
(* The clock of the store advances.                                        *)
(***************************************************************************)
Tick ==
    /\ now < MaxClock
    /\ now' = now + 1
    /\ UNCHANGED <<variant, table, seq, alive, req, resp, live, issued, stats, shutdown>>

NoRequest == [op |-> "none"]

NoResponse == [status |-> 0]

Init ==
    /\ variant \in Variants
    /\ table = {}
    /\ seq = 0
    /\ now = 0
    /\ alive = TRUE
    /\ req = NoRequest
    /\ resp = NoResponse
    /\ live = {}
    /\ issued = {}
    /\ stats = NoStats
    /\ shutdown = Running

Next ==
    \/ SubmitQuestionnaire
    \/ GetResponses
    \/ GetResponse
    \/ DeleteResponse
    \/ SearchResponses
    \/ ExportCsv
    \/ Root
    \/ Tick

Spec == Init /\ [][Next]_vars

\* the statistics request in flight, interleaved with the writes
NextStats ==
    \/ SubmitQuestionnaire
    \/ DeleteResponse
    \/ GetStats
    \/ StatsCallback
    \/ StatsDaily
    \/ StatsTotal
    \/ StatsNested
    \/ Tick

SpecStats == Init /\ [][NextStats]_vars

\* submits that include white-space-only names and emails
NextBlank ==
    \/ SubmitAny
    \/ GetResponse
    \/ DeleteResponse
    \/ Tick

SpecBlank == Init /\ [][NextBlank]_vars

\* requests around an interrupt signal
NextShutdown ==
    \/ SubmitQuestionnaire
    \/ GetResponse
    \/ DeleteResponse
    \/ Sigint
    \/ DbClosed
    \/ Tick

SpecShutdown == Init /\ [][NextShutdown]_vars

(***************************************************************************)
(* Properties.                                                             *)
(***************************************************************************)
IssuedIds == issued

LiveIds == {l.id : l \in live}

\* C1: a submit with firstName and email that returned responseId r, and no
\* delete of r run since: a get-by-id of r that the store answers returns
\* success with the row of id r, whose first_name and email are the submitted
\* firstName and email.
C1_SubmittedRowResolves ==
    \A l \in live :
        (req.op = "get" /\ ~req.err /\ IdOfParam(req.id) = l.id)
        => /\ resp.status = 200
           /\ Len(resp.body.response) = 1
           /\ resp.body.response[1].id = l.id
           /\ resp.body.response[1].first_name = l.firstName
           /\ resp.body.response[1].email = l.email

\* a get-by-id of a submitted id succeeded after another id was submitted
\* and deleted
C1_Witness ==
    /\ req.op = "get" /\ resp.status = 200
    /\ IdOfParam(req.id) \in LiveIds
    /\ IssuedIds \ LiveIds # {}

ClaimMissing(v) == v = Undefined \/ v = Null \/ v = <<>>

\* C2: a submit whose firstName or email is missing is answered 400 and
\* leaves the table as it was.
C2_MissingFieldRejected ==
    [][(SubmitQuestionnaire
        /\ (ClaimMissing(req'.body.firstName) \/ ClaimMissing(req'.body.email)))
       => (resp'.status = 400 /\ table' = table)]_vars

\* a submit without a required field was rejected while the table held a row
C2_Witness ==
    /\ req.op = "submit"
    /\ ClaimMissing(req.body.firstName) \/ ClaimMissing(req.body.email)
    /\ resp.status = 400
    /\ table # {}

\* C3: a delete that the store runs is answered 404 exactly when its id
\* matches no current row (never existed or already deleted), and 200
\* otherwise, in every variant.
C3_DeleteOfAbsentIdNotFound ==
    [][(DeleteResponse /\ ~req'.err)
       => /\ (resp'.status = 404 <=> RowsWithId(table, req'.id) = {})
          /\ (resp'.status # 404 => resp'.status = 200)]_vars

\* C4: a get-by-id that the store answers returns 404 exactly when no row
\* with the requested id is in the table, and otherwise success with the
\* stored row of that id.
C4_GetNotFoundExactlyWhenAbsent ==
    (req.op = "get" /\ ~req.err)
    => /\ (resp.status = 404 <=> ~ \E r \in table : r.id = IdOfParam(req.id))
       /\ (resp.status # 404
           => /\ resp.status = 200
              /\ Len(resp.body.response) = 1
              /\ resp.body.response[1] \in table
              /\ resp.body.response[1].id = IdOfParam(req.id))

\* a get-by-id of an id that was created and since deleted returned 404
C4_Witness ==
    /\ req.op = "get" /\ resp.status = 404
    /\ IdOfParam(req.id) \in IssuedIds

NoDeletes == LiveIds = IssuedIds

ListedRows == resp.body.responses

\* C5 as stated: after N submits and no deletes the listing has exactly the N
\* rows, count N, and a row submitted later never comes after a row
\* submitted earlier, also within one second.
C5_ListNewestFirst ==
    (req.op = "list" /\ resp.status = 200 /\ NoDeletes)
    => /\ Len(ListedRows) = Cardinality(IssuedIds)
       /\ resp.body.count = Cardinality(IssuedIds)
       /\ \A i, j \in 1..Len(ListedRows) :
            i < j => ListedRows[i].id > ListedRows[j].id

\* C5 as amended: after N submits and no deletes the listing has exactly the N
\* rows, each once, count N, in non-increasing order of submitted_at.
C5_ListBySubmittedAtDesc ==
    (req.op = "list" /\ resp.status = 200 /\ NoDeletes)
    => /\ Len(ListedRows) = Cardinality(IssuedIds)
       /\ resp.body.count = Cardinality(IssuedIds)
       /\ {ListedRows[i].id : i \in 1..Len(ListedRows)} = IssuedIds
       /\ \A i, j \in 1..Len(ListedRows) :
            i < j => ListedRows[i].submitted_at >= ListedRows[j].submitted_at

\* a listing of two rows submitted in different seconds, nothing deleted
C5_Witness ==
    /\ req.op = "list" /\ resp.status = 200 /\ NoDeletes
    /\ Len(ListedRows) = 2
    /\ ListedRows[1].submitted_at > ListedRows[2].submitted_at

RECURSIVE Lines(_)
\* the pieces of a text between its line breaks
Lines(txt) ==
    IF \A i \in 1..Len(txt) : txt[i] # "\n" THEN <<txt>>
    ELSE LET n == CHOOSE i \in 1..Len(txt) :
                    txt[i] = "\n" /\ \A k \in 1..(i - 1) : txt[k] # "\n"
         IN <<SubSeq(txt, 1, n - 1)>> \o Lines(SubSeq(txt, n + 1, Len(txt)))

Malformed == <<<<"MALFORMED">>>>

RECURSIVE Fields(_)
RECURSIVE PlainField(_, _)
RECURSIVE QuotedField(_, _)
\* the fields of one CSV line (RFC 4180): separated by commas, a field in
\* double quotes holds a double quote as two of them
Fields(s) ==
    IF s # <<>> /\ Head(s) = "\"" THEN QuotedField(Tail(s), <<>>)
    ELSE PlainField(s, <<>>)

PlainField(s, acc) ==
    IF s = <<>> THEN <<acc>>
    ELSE IF Head(s) = "," THEN <<acc>> \o Fields(Tail(s))
    ELSE PlainField(Tail(s), Append(acc, Head(s)))

QuotedField(s, acc) ==
    IF s = <<>> THEN Malformed
    ELSE IF Head(s) # "\"" THEN QuotedField(Tail(s), Append(acc, Head(s)))
    ELSE IF Len(s) = 1 THEN <<acc>>
    ELSE IF s[2] = "\"" THEN QuotedField(SubSeq(s, 3, Len(s)), Append(acc, "\""))
    ELSE IF s[2] = "," THEN <<acc>> \o Fields(SubSeq(s, 3, Len(s)))
    ELSE Malformed

NullAsEmpty(value) == IF value = Null THEN <<>> ELSE value

\* the field values of a row of the listing, null rendered as the empty text
RowFields(v, r) ==
    <<NumStr(r.id), r.first_name, r.email,
      NullAsEmpty(r.question_1), NullAsEmpty(r.question_2),
      NullAsEmpty(r.question_3), NullAsEmpty(r.question_4),
      NullAsEmpty(r.question_5), TimestampStr(r.submitted_at),
      NullAsEmpty(r.ip_address)>>
    \o (IF v = 3 THEN <<NullAsEmpty(r.user_agent)>> ELSE <<>>)

\* the lines of the export after the header line
DataLines(csv) == SubSeq(Lines(csv), 2, Len(Lines(csv)) - 1)

\* C6: every row of the table is exactly one line of the export after the
\* header, the export has no other data line, and the fields of each line are
\* the row's values with null as the empty text, whatever the stored texts.
C6_CsvRoundTrip ==
    (req.op = "csv" /\ resp.status = 200)
    => /\ Len(DataLines(resp.body)) = Cardinality(table)
       /\ {Fields(DataLines(resp.body)[i]) : i \in 1..Len(DataLines(resp.body))}
          = {RowFields(variant, r) : r \in table}

FoldText(txt) == [i \in 1..Len(txt) |-> Fold(txt[i])]

\* q is a substring of txt, letter case aside
Contains(txt, q) ==
    \E i \in 0..(Len(txt) - Len(q)) :
        FoldText(SubSeq(txt, i + 1, i + Len(q))) = FoldText(q)

FoundRows == IF variant = 2 THEN resp.body.results ELSE resp.body.responses

\* C7: a search for a non-empty q that the store answers returns success
\* with exactly the rows whose first_name or email contains q literally, letter
\* case aside, and count is their number.
C7_SearchIsLiteralSubstring ==
    (req.op = "search" /\ ~req.err /\ ~ClaimMissing(req.query))
    => /\ resp.status = 200
       /\ resp.body.count = Len(FoundRows)
       /\ Cardinality({FoundRows[i] : i \in 1..Len(FoundRows)}) = Len(FoundRows)
       /\ {FoundRows[i] : i \in 1..Len(FoundRows)}
          = {r \in table : Contains(r.first_name, req.query)
                           \/ Contains(r.email, req.query)}

\* C8: a search without a query, or with an empty one, is answered 400, in
\* every variant.
C8_EmptyQueryRejected ==
    (req.op = "search" /\ ClaimMissing(req.query)) => resp.status = 400

\* C10: the id of every new row is greater than every id returned before, and
\* it is the responseId of the submit that added the row.
C10_IdsIncreaseNeverReused ==
    [][\A r \in table' \ table :
          /\ \A i \in issued : i < r.id
          /\ resp'.status = 200
          /\ resp'.body.responseId = r.id
          /\ issued' = issued \cup {r.id}]_vars

\* a submit got a fresh id after the row of the last id handed out was deleted
C10_Witness ==
    /\ req.op = "submit" /\ resp.status = 200
    /\ resp.body.responseId = MaxId
    /\ IssuedIds = 1..MaxId
    /\ LiveIds = {MaxId}

\* the `stats' object of a success response has a value for each aggregate
CarriesAllThree(obj) ==
    \/ {"total", "today", "uniqueEmails"} \subseteq DOMAIN obj
    \/ {"totalResponses", "todayResponses", "uniqueEmails"} \subseteq DOMAIN obj

\* C9: a statistics request one of whose queries failed is answered 500; one
\* whose queries all succeeded is answered 200; and no success response has a
\* `stats' object that lacks one of the three aggregates.  In every variant.
C9_StatsFailWhole ==
    req.op = "stats"
    => /\ req.failed => resp.status = 500
       /\ ~req.failed => resp.status = 200
       /\ (resp.status = 200 /\ "stats" \in DOMAIN resp.body)
          => CarriesAllThree(resp.body.stats)

WhiteSpace == {" ", "\t", "\n", "\r"}

\* null, or empty once leading and trailing white space is trimmed
Blank(v) == v = Null \/ v = Undefined \/ \A i \in 1..Len(v) : v[i] \in WhiteSpace

\* C11: every row has a first_name and an email that are not null and not
\* empty after trimming, and a submit whose firstName or email is white space
\* only is answered 400.
C11_NamesNeverBlank ==
    /\ \A r \in table : ~Blank(r.first_name) /\ ~Blank(r.email)
    /\ (req.op = "submit" /\ (Blank(req.body.firstName) \/ Blank(req.body.email)))
       => resp.status = 400

\* C12: no step of a request ends the process: as long as no interrupt signal
\* is handled it stays able to answer requests.
C12_NoRequestEndsProcess ==
    [][shutdown.phase = "running" => alive']_vars

\* a step in which a request is taken up
RequestAccepted ==
    \/ SubmitQuestionnaire
    \/ GetResponses
    \/ GetResponse
    \/ GetStats
    \/ DeleteResponse
    \/ SearchResponses
    \/ ExportCsv
    \/ Root

\* C13: once the interrupt signal is handled no new request is accepted, and
\* the process exits with code 0 whether or not the close reports an error.
C13_NoRequestAfterSigint ==
    [][/\ shutdown.phase # "running" => ~RequestAccepted
       /\ shutdown'.phase = "exited" => shutdown'.code = 0]_vars

StatTotal ==
    IF variant = 1 THEN resp.body.stats.total ELSE resp.body.stats.totalResponses

StatToday ==
    IF variant = 1 THEN resp.body.stats.today ELSE resp.body.stats.todayResponses

StatUnique == resp.body.stats.uniqueEmails

\* a statistics response of variant 1 or 3 with its three aggregates
ThreeAggregates ==
    /\ req.op = "stats" /\ resp.status = 200 /\ ~req.failed
    /\ variant # 2

\* C14: when no write changed the table between the aggregate queries of a
\* statistics request, total, today and uniqueEmails of its response are the
\* counts of that one table: all rows, the rows of the day of the today query,
\* and the distinct emails.
C14_NoWriteOneSnapshot ==
    (ThreeAggregates /\ Cardinality(req.seen) = 1)
    => \A t \in req.seen :
          /\ StatTotal = Cardinality(t)
          /\ StatUnique = Cardinality({r.email : r \in t})
          /\ StatToday =
                Cardinality({r \in t : r.submitted_at \div DayLen
                                       = req.todayAt \div DayLen})

\* a write came between the queries and the response counts more distinct
\* emails than rows, which is true of no table
C14_Witness ==
    /\ ThreeAggregates
    /\ Cardinality(req.seen) > 1
    /\ StatUnique > StatTotal

\* the text p is the decimal numeral of i, leading zeros allowed
Names(p, i) == \E z \in 0..Len(p) : p = [k \in 1..z |-> "0"] \o NumStr(i)

Added == table' \ table

Removed == table \ table'

\* C15: the table changes only by a successful submit, which adds exactly one
\* row under a new id, and by a successful delete, which removes exactly the
\* row of the requested id; every other row, and every row in a step of any
\* other operation, a rejected submit, a failed or a not-found delete, keeps
\* all of its fields.
C15_OnlySubmitAddsOnlyDeleteRemoves ==
    [][/\ \A r \in table, q \in table' : r.id = q.id => r = q
       /\ Added # {}
          => /\ req'.op = "submit" /\ resp'.status = 200
             /\ Cardinality(Added) = 1 /\ Removed = {}
             /\ \A q \in Added :
                   /\ q.id = resp'.body.responseId
                   /\ q.id \notin {r.id : r \in table}
                   /\ q.submitted_at = now
       /\ Removed # {}
          => /\ req'.op = "delete" /\ resp'.status = 200
             /\ Cardinality(Removed) = 1 /\ Added = {}
             /\ \A r \in Removed : Names(req'.id, r.id)
       /\ (SubmitQuestionnaire /\ resp'.status = 200) => Cardinality(Added) = 1
       /\ DeleteResponse
          => \A r \in table :
                r \in Removed <=> (req'.err = FALSE /\ Names(req'.id, r.id))
      ]_vars

\* a delete has removed one row and the other row is still in the table
C15_Witness ==
    /\ req.op = "delete" /\ resp.status = 200
    /\ \E r \in table : ~Names(req.id, r.id)
    /\ \E i \in IssuedIds \ {r.id : r \in table} : Names(req.id, i)

\* C16: every statistics request is answered exactly once, and only when all
\* of its aggregate queries have completed, whether or not one of them failed:
\* the step that ends a request in flight is the step that sends its response,
\* and no response of a statistics request is sent in any other step.
C16_StatsAnsweredOnce ==
    [][/\ (stats.pc # "idle" /\ stats'.pc = "idle")
          => /\ req'.op = "stats"
             /\ resp'.status \in {200, 500}
       /\ (req'.op = "stats" /\ <<req, resp>> # <<req', resp'>>)
          => (stats.pc # "idle" /\ stats'.pc = "idle")
      ]_vars

====
